---- MODULE Spec2Model ----
(***************************************************************************)
(* Model of custom_components/tuya_ble/number.py: the mapping registry and *)
(* its lookup, the fingerbot availability predicates and program-payload   *)
(* accessors, the datapoint-bound number entity and the virtual, locally   *)
(* persisted number entity.                                                *)
(*                                                                         *)
(* Conventions.                                                            *)
(*  - A Python value that may be None is None or Some(v).                  *)
(*  - A Python dict literal is the sequence of its <<key, value>> items in *)
(*    source order; DictGet gives Python's lookup, where a repeated key    *)
(*    keeps its last value.                                                *)
(*  - A Python list object is [id, items]: id stands for the object's      *)
(*    identity, items for its contents.                                    *)
(*  - A user-facing float is an integer number of tenths (F(51) is 51.0;   *)
(*    the finest native_step of the registry is 0.1).                      *)
(***************************************************************************)
EXTENDS Integers, Sequences, FiniteSets

VARIABLES
    extra_entry,   \* None, or one more category entry of the registry
    device,        \* the TuyaBLEDevice handed to get_mapping_by_device
    resolved,      \* what the last get_mapping_by_device call returned
    v_native_value,  \* TuyaBLEVirtualNumber._attr_native_value
    v_phase,       \* "created" by __init__, "added" once async_added_to_hass ran
    v_call,        \* the last call on the virtual number and how it ended
    last_state,    \* what async_get_last_state() returns to this instance
    ha_state,      \* the state this instance has written to the host
    storage_file,  \* tuya_ble_virtual_<unique_id>.json: None when missing
    prior_set,     \* the last value set before the latest restart, if any
    product,       \* the TuyaBLEProductInfo of the device
    datapoints,    \* device.datapoints: dp_id -> datapoint, present ids only
    tasks,         \* the datapoint writes scheduled with hass.create_task
    last_write,    \* the scheduled write that ran last, if any
    waiting,       \* the scheduled writes still waiting when last_write ran
    call,          \* the last accessor or entity call and how it ended
    entities,      \* None, or the entities async_setup_entry has added
    nsets          \* how many setter calls the host has made so far

resolveVars == <<extra_entry, device, resolved>>

virtualVars ==
    <<v_native_value, v_phase, v_call, last_state, ha_state, storage_file,
      prior_set>>

deviceVars ==
    <<product, datapoints, tasks, last_write, waiting, call, entities, nsets>>

vars == <<resolveVars, virtualVars, deviceVars>>

----------------------------------------------------------------------------
(* Python values *)

None == [isNone |-> TRUE]

Some(v) == [isNone |-> FALSE, value |-> v]

F(n) == n * 10

\* d.get(key) on a dict literal: the last item with that key, else None.
DictGet(items, key) ==
    LET hits == {i \in 1..Len(items) : items[i][1] = key}
    IN  IF hits = {} THEN None
        ELSE Some(items[CHOOSE i \in hits : \A j \in hits : j <= i][2])

\* dict.fromkeys(keys, value): every key bound to the one value object.
FromKeys(keys, value) == [i \in 1..Len(keys) |-> <<keys[i], value>>]

List(id, items) == [id |-> id, items |-> items]

\* A list display evaluated at call time: a new, empty list.
NewList == List("[]", <<>>)

----------------------------------------------------------------------------
(* Descriptors *)

NumberEntityDescription(key, min, max, step) ==
    [key |-> key, native_min_value |-> min, native_max_value |-> max,
     native_step |-> step]

TuyaBLEDownPositionDescription ==
    NumberEntityDescription("down_position", F(51), F(100), F(1))

TuyaBLEUpPositionDescription ==
    NumberEntityDescription("up_position", F(0), F(50), F(1))

TuyaBLEHoldTimeDescription ==
    NumberEntityDescription("hold_time", F(0), F(10), F(1))

TuyaBLENumberMapping(dp_id, description) ==
    [cls |-> "TuyaBLENumberMapping", dp_id |-> dp_id,
     description |-> description, force_add |-> TRUE, dp_type |-> "None",
     coefficient |-> 1, is_available |-> "None", getter |-> "None",
     setter |-> "None", mode |-> "BOX"]

TuyaBLEHoldTimeMapping(dp_id) ==
    [TuyaBLENumberMapping(dp_id, TuyaBLEHoldTimeDescription)
        EXCEPT !.is_available = "is_fingerbot_in_push_mode"]

\* No dp_id, dp_type or coefficient attribute.
TuyaBLEVirtualNumberMapping(description, default_value) ==
    [cls |-> "TuyaBLEVirtualNumberMapping", description |-> description,
     force_add |-> TRUE, is_available |-> "None", getter |-> "None",
     setter |-> "None", mode |-> "BOX", default_value |-> default_value]

TuyaBLECategoryNumberMapping(products, fallback) ==
    [products |-> products, mapping |-> fallback]

----------------------------------------------------------------------------
(* The registry *)

SmartWaterValve ==
    List("sfkzq/SmartWaterValve", <<
        TuyaBLENumberMapping(9,
            NumberEntityDescription("time_use", F(0), F(2592000), F(1))),
        TuyaBLENumberMapping(11,
            NumberEntityDescription("countdown", F(0), F(86400), F(1))),
        TuyaBLEVirtualNumberMapping(
            NumberEntityDescription("watering_duration", F(60), F(86400), F(60)),
            F(900)) >>)

CO2Detector ==
    List("co2bj/CO2Detector", <<
        [TuyaBLENumberMapping(17,
            NumberEntityDescription("brightness", F(0), F(100), F(1)))
            EXCEPT !.mode = "SLIDER"],
        TuyaBLENumberMapping(26,
            NumberEntityDescription("carbon_dioxide_alarm_level",
                                    F(400), F(5000), F(100))) >>)

CubeTouch ==
    List("szjqr/CubeTouch", <<
        TuyaBLEHoldTimeMapping(3),
        TuyaBLENumberMapping(5,
            [TuyaBLEUpPositionDescription EXCEPT !.native_max_value = F(100)]),
        TuyaBLENumberMapping(6,
            [TuyaBLEDownPositionDescription EXCEPT !.native_min_value = F(0)]) >>)

FingerbotPlusItems(down, hold, up, program) ==
    << [TuyaBLENumberMapping(down, TuyaBLEDownPositionDescription)
            EXCEPT !.is_available = "is_fingerbot_not_in_program_mode"],
       TuyaBLEHoldTimeMapping(hold),
       [TuyaBLENumberMapping(up, TuyaBLEUpPositionDescription)
            EXCEPT !.is_available = "is_fingerbot_not_in_program_mode"],
       [TuyaBLENumberMapping(program,
            NumberEntityDescription("program_repeats_count",
                                    F(1), F(65534), F(1)))
            EXCEPT !.is_available = "is_fingerbot_repeat_count_available",
                   !.getter = "get_fingerbot_program_repeat_count",
                   !.setter = "set_fingerbot_program_repeat_count"],
       [TuyaBLENumberMapping(program,
            NumberEntityDescription("program_idle_position",
                                    F(0), F(100), F(1)))
            EXCEPT !.is_available = "is_fingerbot_in_program_mode",
                   !.getter = "get_fingerbot_program_position",
                   !.setter = "set_fingerbot_program_position"] >>

FingerbotPlus == List("szjqr/FingerbotPlus", FingerbotPlusItems(9, 10, 15, 121))

Fingerbot ==
    List("szjqr/Fingerbot", <<
        [TuyaBLENumberMapping(9, TuyaBLEDownPositionDescription)
            EXCEPT !.is_available = "is_fingerbot_not_in_program_mode"],
        [TuyaBLENumberMapping(10,
            [TuyaBLEHoldTimeDescription EXCEPT !.native_step = 1])
            EXCEPT !.coefficient = 10,
                   !.is_available = "is_fingerbot_in_push_mode"],
        [TuyaBLENumberMapping(15, TuyaBLEUpPositionDescription)
            EXCEPT !.is_available = "is_fingerbot_not_in_program_mode"] >>)

FingerbotPlusKg == List("kg/FingerbotPlus", FingerbotPlusItems(102, 103, 106, 109))

RadiatorValve ==
    List("wk/ThermostaticRadiatorValve", <<
        TuyaBLENumberMapping(27,
            NumberEntityDescription("temperature_calibration",
                                    F(-6), F(6), F(1))) >>)

SoilMoistureSensor ==
    List("wsdcg/SoilMoistureSensor", <<
        TuyaBLENumberMapping(17,
            NumberEntityDescription("reporting_period", F(1), F(120), F(1))) >>)

SmartWaterBottle ==
    List("znhsb/SmartWaterBottle", <<
        TuyaBLENumberMapping(103,
            NumberEntityDescription("recommended_water_intake",
                                    F(0), F(5000), F(1))) >>)

IrrigationPPB ==
    List("ggq/PPB_A1", <<
        TuyaBLENumberMapping(5,
            NumberEntityDescription("countdown_duration",
                                    F(1), F(1440), F(1))) >>)

IrrigationSGW08 ==
    List("ggq/SGW08", <<
        TuyaBLENumberMapping(106,
            NumberEntityDescription("countdown_duration_1",
                                    F(1), F(1440), F(1))),
        TuyaBLENumberMapping(103,
            NumberEntityDescription("countdown_duration_2",
                                    F(1), F(1440), F(1))) >>)

IrrigationSGW02 ==
    List("ggq/SGW02", <<
        TuyaBLENumberMapping(106,
            NumberEntityDescription("countdown_duration_z1",
                                    F(1), F(1440), F(1))),
        TuyaBLENumberMapping(103,
            NumberEntityDescription("countdown_duration_z2",
                                    F(1), F(1440), F(1))) >>)

mapping == <<
    <<"sfkzq", TuyaBLECategoryNumberMapping(
        Some(<< <<"nxquc5lb", SmartWaterValve>> >>), None)>>,
    <<"co2bj", TuyaBLECategoryNumberMapping(
        Some(<< <<"59s19z5m", CO2Detector>> >>), None)>>,
    <<"szjqr", TuyaBLECategoryNumberMapping(
        Some(FromKeys(<<"3yqdo5yt", "xhf790if">>, CubeTouch)
             \o FromKeys(<<"blliqpsj", "ndvkgsrm", "yiihr7zh", "neq16kgd">>,
                         FingerbotPlus)
             \o FromKeys(<<"ltak7e1p", "y6kttvd6", "yrnk7mnn", "nvr2rocq",
                           "bnt7wajf", "rvdceqjh", "5xhbk964">>, Fingerbot)),
        None)>>,
    <<"kg", TuyaBLECategoryNumberMapping(
        Some(FromKeys(<<"mknd4lci", "riecov42">>, FingerbotPlusKg)), None)>>,
    <<"wk", TuyaBLECategoryNumberMapping(
        Some(FromKeys(<<"drlajpqc", "nhj2j7su", "zmachryv">>, RadiatorValve)),
        None)>>,
    <<"wsdcg", TuyaBLECategoryNumberMapping(
        Some(<< <<"ojzlzzsw", SoilMoistureSensor>> >>), None)>>,
    <<"znhsb", TuyaBLECategoryNumberMapping(
        Some(<< <<"cdlandip", SmartWaterBottle>> >>), None)>>,
    <<"ggq", TuyaBLECategoryNumberMapping(
        Some(<< <<"6pahkcau", IrrigationPPB>>,
                <<"hfgdqhho", IrrigationSGW08>>,
                <<"hfgdqhho", IrrigationSGW02>> >>), None)>> >>

----------------------------------------------------------------------------
(* The virtual number: TuyaBLEVirtualNumber *)

\* The names bound at module level when a method body runs: the imports of
\* lines 2–31, _LOGGER, and the module's own definitions.
ModuleGlobals ==
    {"annotations", "dataclass", "field", "logging", "Any", "Callable",
     "NumberEntityDescription", "NumberEntity", "RestoreNumber",
     "NumberDeviceClass", "NumberMode", "ConfigEntry",
     "CONCENTRATION_PARTS_PER_MILLION", "PERCENTAGE", "UnitOfVolume",
     "UnitOfTemperature", "UnitOfTime", "HomeAssistant", "callback",
     "EntityCategory", "AddEntitiesCallback", "RestoreEntity",
     "DataUpdateCoordinator", "DOMAIN", "TuyaBLEData", "TuyaBLEEntity",
     "TuyaBLEProductInfo", "TuyaBLEDataPointType", "TuyaBLEDevice",
     "_LOGGER", "TuyaBLENumberGetter", "TuyaBLENumberIsAvailable",
     "TuyaBLENumberSetter", "TuyaBLENumberMapping",
     "TuyaBLECategoryNumberMapping", "TuyaBLEVirtualNumberMapping",
     "mapping", "get_mapping_by_device", "TuyaBLENumber",
     "TuyaBLEVirtualNumber", "async_setup_entry"}

\* A Python str: the text of a number, or some other text.
NumStr(x) == [numeric |-> TRUE, number |-> x]

Text(t) == [numeric |-> FALSE, text |-> t]

\* float(s) for a str s: the number, or ValueError.
ParseFloat(s) ==
    IF s.numeric THEN [raised |-> "None", value |-> s.number]
    ELSE [raised |-> "ValueError"]

\* The content of a storage file as json.load sees it.
JsonCorrupt == [json |-> "corrupt"]

JsonObject(value) == [json |-> "object", value |-> value]

JsonNumber(x) == [t |-> "number", number |-> x]

JsonString(s) == [t |-> "string", string |-> s]

JsonNull == [t |-> "null"]

\* float(data["value"]): a number, the text of a number, or an error.
FloatOfJson(j) ==
    IF j.t = "number" THEN [raised |-> "None", value |-> j.number]
    ELSE IF j.t = "string" THEN ParseFloat(j.string)
    ELSE [raised |-> "TypeError"]

\* The mapping of the one virtual descriptor of the registry.
VirtualMapping == SmartWaterValve.items[3]

\* Lines 700-705: the value after the restore from the host's last state.
RestoreFromLastState(current, last, default_value) ==
    IF ~last.isNone /\ last.value \notin {Text("unknown"), Text("unavailable")}
    THEN LET parsed == ParseFloat(last.value)
         IN  IF parsed.raised = "None" THEN parsed.value ELSE default_value
    ELSE current

\* Lines 713-720: the value after the load from the storage file.
LoadFromStorage(current, file) ==
    IF file.isNone \/ file.value.json # "object" \/ file.value.value.isNone
    THEN current
    ELSE LET parsed == FloatOfJson(file.value.value.value)
         IN  IF parsed.raised = "None" THEN parsed.value ELSE current

async_added_to_hass ==
    /\ v_phase = "created"
    /\ v_phase' = "added"
    /\ LET restored ==
            RestoreFromLastState(v_native_value, last_state,
                                 VirtualMapping.default_value)
       IN  IF "os" \notin ModuleGlobals
           THEN \* line 709: os.makedirs raises NameError
                /\ v_native_value' = restored
                /\ v_call' = [op |-> "async_added_to_hass",
                              raised |-> "NameError"]
           ELSE /\ v_native_value' = LoadFromStorage(restored, storage_file)
                /\ v_call' = [op |-> "async_added_to_hass", raised |-> "None"]
    /\ UNCHANGED <<last_state, ha_state, storage_file, prior_set>>
    /\ UNCHANGED <<resolveVars, deviceVars>>

async_set_native_value(value) ==
    /\ v_phase = "added"
    /\ v_native_value' = value
    /\ ha_state' = Some(NumStr(value))
    /\ IF "os" \notin ModuleGlobals
       THEN \* line 729: os.path.join raises NameError
            /\ v_call' = [op |-> "async_set_native_value", value |-> value,
                          raised |-> "NameError"]
            /\ UNCHANGED storage_file
       ELSE /\ v_call' = [op |-> "async_set_native_value", value |-> value,
                          raised |-> "None"]
            /\ \E written \in {"dumped", "open failed", "dump failed"} :
                  storage_file' =
                     CASE written = "dumped" ->
                              Some(JsonObject(Some(JsonNumber(value))))
                       [] written = "open failed" -> storage_file
                       [] written = "dump failed" -> Some(JsonCorrupt)
    /\ UNCHANGED <<v_phase, last_state, prior_set>>
    /\ UNCHANGED <<resolveVars, deviceVars>>

\* The host stops and starts again: a new instance is constructed (lines
\* 661-693). The storage file stays as it is; the host hands the new
\* instance the state the old one last wrote, or nothing.
Restart ==
    /\ v_phase = "added"
    /\ v_phase' = "created"
    /\ v_native_value' = VirtualMapping.default_value
    /\ v_call' = [op |-> "__init__", raised |-> "None"]
    /\ last_state' \in {None, ha_state}
    /\ ha_state' = None
    /\ prior_set' = IF v_call.op = "async_set_native_value"
                    THEN Some(v_call.value) ELSE None
    /\ UNCHANGED storage_file
    /\ UNCHANGED <<resolveVars, deviceVars>>

LastStates ==
    {None, Some(Text("unknown")), Some(Text("unavailable")),
     Some(Text("abc")), Some(NumStr(F(600)))}

StorageFiles ==
    {None, Some(JsonCorrupt), Some(JsonObject(None)),
     Some(JsonObject(Some(JsonNumber(F(300))))),
     Some(JsonObject(Some(JsonString(Text("abc"))))),
     Some(JsonObject(Some(JsonNull)))}

SetValues == {F(60), F(120)}

VirtualInit ==
    /\ v_native_value = VirtualMapping.default_value
    /\ v_phase = "created"
    /\ v_call = [op |-> "__init__", raised |-> "None"]
    /\ last_state \in LastStates
    /\ ha_state = None
    /\ storage_file \in StorageFiles
    /\ prior_set = None

VirtualIdle ==
    /\ v_native_value = VirtualMapping.default_value
    /\ v_phase = "created"
    /\ v_call = [op |-> "__init__", raised |-> "None"]
    /\ last_state = None
    /\ ha_state = None
    /\ storage_file = None
    /\ prior_set = None

VirtualNext ==
    \/ async_added_to_hass
    \/ \E value \in SetValues : async_set_native_value(value)
    \/ Restart

----------------------------------------------------------------------------
(* The datapoint store and the scheduled writes *)

MaxLen == 4

MaxTasks == 2

MaxSets == 2

\* A datapoint value with its Python type.
IntVal(n) == [py |-> "int", int |-> n]

BytesVal(b) == [py |-> "bytes", bytes |-> b]

ByteArrayVal(b) == [py |-> "bytearray", bytes |-> b]

DataPoint(type, value) == [type |-> type, value |-> value]

\* device.datapoints[dp_id]: the datapoint, or None when the device has not
\* reported it.
DatapointsGet(dps, dp_id) ==
    IF dp_id \in DOMAIN dps THEN Some(dps[dp_id]) ELSE None

\* What a datapoint of the store holds once set_value(value) has run: the
\* value as handed over, or converted to the datapoint's own type.
DatapointSetValue(dp, value) ==
    { [dp EXCEPT !.value = value] } \cup
    ( IF value.py = "bytearray"
      THEN { [dp EXCEPT !.value = BytesVal(value.bytes)] }
      ELSE {} )

\* hass.create_task(datapoint.set_value(new_value))
CreateTask(dp_id, value, origin) ==
    [dp_id |-> dp_id, value |-> value, origin |-> origin]

RemoveAt(seq, i) ==
    [j \in 1..(Len(seq) - 1) |-> IF j < i THEN seq[j] ELSE seq[j + 1]]

\* One scheduled write runs; scheduled writes are independent tasks.
RunTask ==
    \E i \in 1..Len(tasks) :
        /\ tasks[i].dp_id \in DOMAIN datapoints
        /\ \E dp \in DatapointSetValue(datapoints[tasks[i].dp_id],
                                       tasks[i].value) :
              datapoints' = [datapoints EXCEPT ![tasks[i].dp_id] = dp]
        /\ last_write' = Some(tasks[i])
        /\ tasks' = RemoveAt(tasks, i)
        /\ waiting' = RemoveAt(tasks, i)
        /\ call' = [fn |-> "none"]
        /\ UNCHANGED <<product, entities, nsets>>
        /\ UNCHANGED <<resolveVars, virtualVars>>

----------------------------------------------------------------------------
(* Python integers and byte strings *)

Min(a, b) == IF a < b THEN a ELSE b

\* int(x) for a float x, in tenths: truncation towards zero.
IntOfFloat(x) == IF x >= 0 THEN x \div 10 ELSE -((-x) \div 10)

\* n * 1.0
FloatOfInt(n) == F(n)

\* b[lo:] and b[0:hi] for a byte string b.
SliceFrom(b, lo) == SubSeq(b, lo + 1, Len(b))

SliceTo(b, hi) == SubSeq(b, 1, Min(hi, Len(b)))

RECURSIVE IntFromBytesBig(_)
\* int.from_bytes(b, "big")
IntFromBytesBig(b) ==
    IF b = << >> THEN 0
    ELSE IntFromBytesBig(SubSeq(b, 1, Len(b) - 1)) * 256 + b[Len(b)]

\* int.to_bytes(n, 2, "big"), for n in 0..65535
IntToBytes2Big(n) == << n \div 256, n % 256 >>

----------------------------------------------------------------------------
(* Composite accessors of the fingerbot program datapoint *)

HasProgram(prod) ==
    ~prod.fingerbot.isNone /\ prod.fingerbot.value.program # 0

Returned(result) == [raised |-> "None", result |-> result, tasks |-> << >>]

Raised(exception) == [raised |-> exception, tasks |-> << >>]

Scheduled(task) == [raised |-> "None", result |-> None, tasks |-> << task >>]

get_fingerbot_program_repeat_count(dps, prod) ==
    IF HasProgram(prod)
    THEN LET datapoint == DatapointsGet(dps, prod.fingerbot.value.program)
         IN  IF ~datapoint.isNone /\ datapoint.value.value.py = "bytes"
             THEN Returned(Some(FloatOfInt(
                     IntFromBytesBig(SliceTo(datapoint.value.value.bytes, 2)))))
             ELSE Returned(None)
    ELSE Returned(None)

\* Little-endian instead of big-endian.
set_fingerbot_program_repeat_count_little_endian(dps, prod, value) ==
    IF HasProgram(prod)
    THEN LET datapoint == DatapointsGet(dps, prod.fingerbot.value.program)
         IN  IF ~datapoint.isNone /\ datapoint.value.value.py = "bytes"
             THEN IF IntOfFloat(value) \notin 0..65535
                  THEN Raised("OverflowError")
                  ELSE Scheduled(CreateTask(
                          prod.fingerbot.value.program,
                          BytesVal(<< IntOfFloat(value) % 256,
                                      IntOfFloat(value) \div 256 >>
                                   \o SliceFrom(datapoint.value.value.bytes, 2)),
                          [fn |-> "set_fingerbot_program_repeat_count",
                           value |-> value]))
             ELSE Returned(None)
    ELSE Returned(None)

set_fingerbot_program_repeat_count(dps, prod, value) ==
    IF HasProgram(prod)
    THEN LET datapoint == DatapointsGet(dps, prod.fingerbot.value.program)
         IN  IF ~datapoint.isNone /\ datapoint.value.value.py = "bytes"
             THEN IF IntOfFloat(value) \notin 0..65535
                  THEN Raised("OverflowError")
                  ELSE Scheduled(CreateTask(
                          prod.fingerbot.value.program,
                          BytesVal(IntToBytes2Big(IntOfFloat(value))
                                   \o SliceFrom(datapoint.value.value.bytes, 2)),
                          [fn |-> "set_fingerbot_program_repeat_count",
                           value |-> value]))
             ELSE Returned(None)
    ELSE Returned(None)

get_fingerbot_program_position(dps, prod) ==
    IF HasProgram(prod)
    THEN LET datapoint == DatapointsGet(dps, prod.fingerbot.value.program)
         IN  IF ~datapoint.isNone /\ datapoint.value.value.py = "bytes"
             THEN IF Len(datapoint.value.value.bytes) < 3
                  THEN Raised("IndexError")
                  ELSE Returned(Some(FloatOfInt(datapoint.value.value.bytes[3])))
             ELSE Returned(None)
    ELSE Returned(None)

\* The byte is written one place too far.
set_fingerbot_program_position_off_by_one(dps, prod, value) ==
    IF HasProgram(prod)
    THEN LET datapoint == DatapointsGet(dps, prod.fingerbot.value.program)
         IN  IF ~datapoint.isNone /\ datapoint.value.value.py = "bytes"
             THEN IF Len(datapoint.value.value.bytes) < 4
                  THEN Raised("IndexError")
                  ELSE IF IntOfFloat(value) \notin 0..255
                  THEN Raised("ValueError")
                  ELSE Scheduled(CreateTask(
                          prod.fingerbot.value.program,
                          ByteArrayVal([datapoint.value.value.bytes
                                           EXCEPT ![4] = IntOfFloat(value)]),
                          [fn |-> "set_fingerbot_program_position",
                           value |-> value]))
             ELSE Returned(None)
    ELSE Returned(None)

set_fingerbot_program_position(dps, prod, value) ==
    IF HasProgram(prod)
    THEN LET datapoint == DatapointsGet(dps, prod.fingerbot.value.program)
         IN  IF ~datapoint.isNone /\ datapoint.value.value.py = "bytes"
             THEN IF Len(datapoint.value.value.bytes) < 3
                  THEN Raised("IndexError")
                  ELSE IF IntOfFloat(value) \notin 0..255
                  THEN Raised("ValueError")
                  ELSE Scheduled(CreateTask(
                          prod.fingerbot.value.program,
                          ByteArrayVal([datapoint.value.value.bytes
                                           EXCEPT ![3] = IntOfFloat(value)]),
                          [fn |-> "set_fingerbot_program_position",
                           value |-> value]))
             ELSE Returned(None)
    ELSE Returned(None)

Setters ==
    {"set_fingerbot_program_repeat_count", "set_fingerbot_program_position"}

\* A call of one of the accessors with the entity's device and product: the
\* call is recorded with the program datapoint it found.
AccessorCall(fn, value, outcome) ==
    /\ Len(tasks) + Len(outcome.tasks) <= MaxTasks
    /\ nsets' = IF fn \in Setters THEN nsets + 1 ELSE nsets
    /\ nsets' <= MaxSets
    /\ call' = [fn |-> fn, value |-> value, outcome |-> outcome,
                found |-> IF HasProgram(product)
                          THEN DatapointsGet(datapoints,
                                             product.fingerbot.value.program)
                          ELSE None,
                after |-> last_write]
    /\ tasks' = tasks \o outcome.tasks
    /\ UNCHANGED <<product, waiting, datapoints, last_write, entities>>
    /\ UNCHANGED <<resolveVars, virtualVars>>

GetRepeatCount ==
    AccessorCall("get_fingerbot_program_repeat_count", 0,
                 get_fingerbot_program_repeat_count(datapoints, product))

SetRepeatCount(value) ==
    AccessorCall("set_fingerbot_program_repeat_count", value,
                 set_fingerbot_program_repeat_count(datapoints, product, value))

GetPosition ==
    AccessorCall("get_fingerbot_program_position", 0,
                 get_fingerbot_program_position(datapoints, product))

SetPosition(value) ==
    AccessorCall("set_fingerbot_program_position", value,
                 set_fingerbot_program_position(datapoints, product, value))

\* Inputs: the products, payloads and values the accessors are called with.
ByteSample == << 0, 5, 255 >>

\* Byte strings of every length up to MaxLen, three of each length that
\* differ at every index, and the payloads of the documented examples.
ProgramPayloads ==
    { [i \in 1..n |-> ByteSample[((i + k) % 3) + 1]] :
        n \in 0..MaxLen, k \in 0..2 }
    \cup { << 255, 255, 5 >>, << 0, 5, 5 >>, << 0, 0, 5 >> }

FingerbotProducts ==
    { [fingerbot |-> None],
      [fingerbot |-> Some([mode |-> 8, program |-> 0])],
      [fingerbot |-> Some([mode |-> 8, program |-> 121])] }

ProgramValues ==
    { IntVal(7) } \cup { BytesVal(b) : b \in ProgramPayloads }

RepeatCounts == { F(0), F(1000), F(65535), F(1) + 5 }

Positions == { F(0), F(37), F(100) }

ProgramInit ==
    /\ product \in FingerbotProducts
    /\ \E present \in SUBSET {121} :
          datapoints \in [present -> { DataPoint("DT_RAW", v) : v \in ProgramValues }]
    /\ tasks = << >>
    /\ last_write = None
    /\ waiting = << >>
    /\ call = [fn |-> "none"]
    /\ entities = None
    /\ nsets = 0

DeviceIdle ==
    /\ product = [fingerbot |-> None]
    /\ datapoints = << >>
    /\ tasks = << >>
    /\ last_write = None
    /\ waiting = << >>
    /\ call = [fn |-> "none"]
    /\ entities = None
    /\ nsets = 0

ProgramNext ==
    \/ GetPosition
    \/ \E value \in Positions : SetPosition(value)
    \/ GetRepeatCount
    \/ \E value \in RepeatCounts : SetRepeatCount(value)
    \/ RunTask

----------------------------------------------------------------------------
(* Availability predicates of the fingerbot family *)

\* datapoint.value == n for an integer literal n
ValueEquals(value, n) == value.py = "int" /\ value.int = n

is_fingerbot_in_program_mode(dps, prod) ==
    IF ~prod.fingerbot.isNone
    THEN LET datapoint == DatapointsGet(dps, prod.fingerbot.value.mode)
         IN  IF ~datapoint.isNone
             THEN Returned(ValueEquals(datapoint.value.value, 2))
             ELSE Returned(TRUE)
    ELSE Returned(TRUE)

is_fingerbot_not_in_program_mode(dps, prod) ==
    IF ~prod.fingerbot.isNone
    THEN LET datapoint == DatapointsGet(dps, prod.fingerbot.value.mode)
         IN  IF ~datapoint.isNone
             THEN Returned(~ValueEquals(datapoint.value.value, 2))
             ELSE Returned(TRUE)
    ELSE Returned(TRUE)

\* A mode that has not been reported counts as not being push mode.
is_fingerbot_in_push_mode_false_when_absent(dps, prod) ==
    IF ~prod.fingerbot.isNone
    THEN LET datapoint == DatapointsGet(dps, prod.fingerbot.value.mode)
         IN  IF ~datapoint.isNone
             THEN Returned(ValueEquals(datapoint.value.value, 0))
             ELSE Returned(FALSE)
    ELSE Returned(TRUE)

is_fingerbot_in_push_mode(dps, prod) ==
    IF ~prod.fingerbot.isNone
    THEN LET datapoint == DatapointsGet(dps, prod.fingerbot.value.mode)
         IN  IF ~datapoint.isNone
             THEN Returned(ValueEquals(datapoint.value.value, 0))
             ELSE Returned(TRUE)
    ELSE Returned(TRUE)

\* The sentinel is looked for in bytes [1:3] instead of bytes [0:2].
is_fingerbot_repeat_count_available_shifted(dps, prod) ==
    IF HasProgram(prod)
    THEN LET mode == DatapointsGet(dps, prod.fingerbot.value.mode)
             in_program_mode ==
                 IF ~mode.isNone THEN ValueEquals(mode.value.value, 2) ELSE TRUE
         IN  IF in_program_mode
             THEN LET datapoint ==
                          DatapointsGet(dps, prod.fingerbot.value.program)
                  IN  IF ~datapoint.isNone /\ datapoint.value.value.py = "bytes"
                      THEN Returned(IntFromBytesBig(SliceTo(
                               SliceFrom(datapoint.value.value.bytes, 1), 2))
                                    # 65535)
                      ELSE Returned(TRUE)
             ELSE Returned(FALSE)
    ELSE Returned(TRUE)

is_fingerbot_repeat_count_available(dps, prod) ==
    IF HasProgram(prod)
    THEN LET mode == DatapointsGet(dps, prod.fingerbot.value.mode)
             in_program_mode ==
                 IF ~mode.isNone THEN ValueEquals(mode.value.value, 2) ELSE TRUE
         IN  IF in_program_mode
             THEN LET datapoint ==
                          DatapointsGet(dps, prod.fingerbot.value.program)
                  IN  IF ~datapoint.isNone /\ datapoint.value.value.py = "bytes"
                      THEN Returned(IntFromBytesBig(SliceTo(
                               datapoint.value.value.bytes, 2)) # 65535)
                      ELSE Returned(TRUE)
             ELSE Returned(FALSE)
    ELSE Returned(TRUE)

\* A call of one of the predicates with the entity's device and product.
PredicateCall(fn, outcome) ==
    /\ call' = [fn |-> fn, outcome |-> outcome]
    /\ UNCHANGED <<product, waiting, datapoints, tasks, last_write, entities, nsets>>
    /\ UNCHANGED <<resolveVars, virtualVars>>

IsFingerbotInProgramMode ==
    PredicateCall("is_fingerbot_in_program_mode",
                  is_fingerbot_in_program_mode(datapoints, product))

IsFingerbotNotInProgramMode ==
    PredicateCall("is_fingerbot_not_in_program_mode",
                  is_fingerbot_not_in_program_mode(datapoints, product))

IsFingerbotInPushMode ==
    PredicateCall("is_fingerbot_in_push_mode",
                  is_fingerbot_in_push_mode(datapoints, product))

IsFingerbotRepeatCountAvailable ==
    PredicateCall("is_fingerbot_repeat_count_available",
                  is_fingerbot_repeat_count_available(datapoints, product))

----------------------------------------------------------------------------
(* Registry lookup *)

\* Wrong precedence: the category-level list is tried before the product.
get_mapping_by_device_fallback_first(reg, dev) ==
    LET category == DictGet(reg, dev.category)
    IN  IF ~category.isNone /\ ~category.value.products.isNone
        THEN LET product_mapping ==
                    DictGet(category.value.products.value, dev.product_id)
             IN  IF ~category.value.mapping.isNone
                 THEN category.value.mapping.value
                 ELSE IF ~product_mapping.isNone
                      THEN product_mapping.value
                      ELSE NewList
        ELSE NewList

get_mapping_by_device(reg, dev) ==
    LET category == DictGet(reg, dev.category)
    IN  IF ~category.isNone /\ ~category.value.products.isNone
        THEN LET product_mapping ==
                    DictGet(category.value.products.value, dev.product_id)
             IN  IF ~product_mapping.isNone
                 THEN product_mapping.value
                 ELSE IF ~category.value.mapping.isNone
                      THEN category.value.mapping.value
                      ELSE NewList
        ELSE NewList

\* The values a TuyaBLECategoryNumberMapping can take: products not set,
\* empty or set, with and without a category-level list.
ExtraProductList ==
    List("extra/product", <<
        TuyaBLENumberMapping(1,
            NumberEntityDescription("extra_product", F(0), F(10), F(1))) >>)

ExtraCategoryList ==
    List("extra/category", <<
        TuyaBLENumberMapping(2,
            NumberEntityDescription("extra_category", F(0), F(10), F(1))) >>)

CategoryEntries ==
    { TuyaBLECategoryNumberMapping(ps, fb) :
        ps \in {None, Some(<< >>), Some(<< <<"extra_pid", ExtraProductList>> >>)},
        fb \in {None, Some(ExtraCategoryList)} }

\* The dict the lookup reads: the table of the source, alone or with one
\* more category entry.
registry ==
    IF extra_entry.isNone THEN mapping
    ELSE mapping \o << <<"extra", extra_entry.value>> >>

Keys(items) == { items[i][1] : i \in 1..Len(items) }

Categories == Keys(mapping) \cup {"extra", "unknown"}

ProductIds ==
    UNION { Keys(mapping[i][2].products.value) : i \in 1..Len(mapping) }
        \cup {"extra_pid", "unknown"}

ResolveIdle ==
    /\ extra_entry = None
    /\ device = [category |-> "unknown", product_id |-> "unknown"]
    /\ resolved = [called |-> FALSE]

ResolveInit ==
    /\ extra_entry \in {None} \cup { Some(e) : e \in CategoryEntries }
    /\ device \in [category : Categories, product_id : ProductIds]
    /\ resolved = [called |-> FALSE]

GetMappingByDevice ==
    /\ ~resolved.called
    /\ resolved' = [called |-> TRUE,
                    list |-> get_mapping_by_device(registry, device)]
    /\ UNCHANGED <<extra_entry, device>>
    /\ UNCHANGED <<virtualVars, deviceVars>>

ResolveNext == GetMappingByDevice

----------------------------------------------------------------------------
(* The datapoint-bound number entity and the platform setup *)

HasAttr(m, name) == name \in DOMAIN m

\* device.datapoints.has_id(dp_id, dp_type)
DatapointsHasId(dps, dp_id, dp_type) ==
    /\ dp_id \in DOMAIN dps
    /\ dp_type = "None" \/ dps[dp_id].type = dp_type

\* device.datapoints.get_or_create(dp_id, type, value): the store with the
\* datapoint in it, created with that type and value when it was missing.
DatapointsGetOrCreate(dps, dp_id, type, value) ==
    IF dp_id \in DOMAIN dps THEN dps
    ELSE [id \in DOMAIN dps \cup {dp_id} |->
             IF id = dp_id THEN DataPoint(type, value) ELSE dps[id]]

\* TuyaBLENumber(hass, coordinator, device, product, mapping)
TuyaBLENumber(m) == [cls |-> "TuyaBLENumber", mapping |-> m]

\* The descriptors of `items` from index i on that pass the add filter, each
\* wrapped in a TuyaBLENumber; AttributeError when the filter reads a dp_id
\* the descriptor does not have.
RECURSIVE SetupEntities(_, _, _)
SetupEntities(items, i, dps) ==
    IF i > Len(items) THEN [raised |-> "None", entities |-> << >>]
    ELSE LET m == items[i]
             rest == SetupEntities(items, i + 1, dps)
         IN  IF ~m.force_add /\ ~HasAttr(m, "dp_id")
             THEN [raised |-> "AttributeError", entities |-> << >>]
             ELSE IF rest.raised # "None" THEN rest
             ELSE IF m.force_add \/ DatapointsHasId(dps, m.dp_id, m.dp_type)
                  THEN [rest EXCEPT !.entities = << TuyaBLENumber(m) >> \o @]
                  ELSE rest

async_setup_entry ==
    /\ entities = None
    /\ nsets = 0
    /\ LET mappings == get_mapping_by_device(mapping, device)
           made == SetupEntities(mappings.items, 1, datapoints)
       IN  /\ entities' = Some(made.entities)
           /\ call' = [fn |-> "async_setup_entry", raised |-> made.raised]
    /\ UNCHANGED <<product, waiting, datapoints, tasks, last_write, nsets>>
    /\ UNCHANGED <<resolveVars, virtualVars>>

\* self._mapping.getter(self, self._product)
CallGetter(getter, dps, prod) ==
    IF getter = "get_fingerbot_program_repeat_count"
    THEN get_fingerbot_program_repeat_count(dps, prod)
    ELSE get_fingerbot_program_position(dps, prod)

\* self._mapping.setter(self, self._product, value)
CallSetter(setter, dps, prod, value) ==
    IF setter = "set_fingerbot_program_repeat_count"
    THEN set_fingerbot_program_repeat_count(dps, prod, value)
    ELSE set_fingerbot_program_position(dps, prod, value)

\* datapoint.value / coefficient, in tenths (exact for the coefficients of
\* the registry, 1.0 and 10.0).
Divide(n, coefficient) == (n * 10) \div coefficient

\* The section 4.4 variant: None for a missing datapoint.
native_value_none_when_absent(dps, prod, m) ==
    IF m.getter # "None" THEN CallGetter(m.getter, dps, prod)
    ELSE IF ~HasAttr(m, "dp_id") THEN Raised("AttributeError")
    ELSE LET datapoint == DatapointsGet(dps, m.dp_id)
         IN  IF ~datapoint.isNone
             THEN IF datapoint.value.value.py = "int"
                  THEN Returned(Some(Divide(datapoint.value.value.int,
                                            m.coefficient)))
                  ELSE Raised("TypeError")
             ELSE Returned(None)

native_value(dps, prod, m) ==
    IF m.getter # "None" THEN CallGetter(m.getter, dps, prod)
    ELSE IF ~HasAttr(m, "dp_id") THEN Raised("AttributeError")
    ELSE LET datapoint == DatapointsGet(dps, m.dp_id)
         IN  IF ~datapoint.isNone
             THEN IF datapoint.value.value.py = "int"
                  THEN Returned(Some(Divide(datapoint.value.value.int,
                                            m.coefficient)))
                  ELSE Raised("TypeError")
             ELSE Returned(Some(m.description.native_min_value))

\* The coefficient is left out of the stored value.
set_native_value_no_coefficient(dps, prod, m, value) ==
    IF m.setter # "None"
    THEN [outcome |-> CallSetter(m.setter, dps, prod, value), dps |-> dps]
    ELSE IF ~HasAttr(m, "coefficient") \/ ~HasAttr(m, "dp_id")
    THEN [outcome |-> Raised("AttributeError"), dps |-> dps]
    ELSE LET int_value == IntOfFloat(value)
         IN  [outcome |-> Scheduled(CreateTask(m.dp_id, IntVal(int_value),
                              [fn |-> "set_native_value", value |-> value])),
              dps |-> DatapointsGetOrCreate(dps, m.dp_id, "DT_VALUE",
                                            IntVal(int_value))]

\* The outcome of set_native_value and the store it leaves (get_or_create
\* may have added the datapoint).
set_native_value(dps, prod, m, value) ==
    IF m.setter # "None"
    THEN [outcome |-> CallSetter(m.setter, dps, prod, value), dps |-> dps]
    ELSE IF ~HasAttr(m, "coefficient") \/ ~HasAttr(m, "dp_id")
    THEN [outcome |-> Raised("AttributeError"), dps |-> dps]
    ELSE LET int_value == IntOfFloat(value * m.coefficient)
         IN  [outcome |-> Scheduled(CreateTask(m.dp_id, IntVal(int_value),
                              [fn |-> "set_native_value", value |-> value])),
              dps |-> DatapointsGetOrCreate(dps, m.dp_id, "DT_VALUE",
                                            IntVal(int_value))]

NativeValue(i) ==
    /\ call' = [fn |-> "native_value", entity |-> i,
                outcome |-> native_value(datapoints, product,
                                         entities.value[i].mapping),
                after |-> last_write]
    /\ UNCHANGED <<product, waiting, datapoints, tasks, last_write, entities, nsets>>
    /\ UNCHANGED <<resolveVars, virtualVars>>

SetNativeValue(i, value) ==
    LET done == set_native_value(datapoints, product,
                                 entities.value[i].mapping, value)
    IN  /\ Len(tasks) + Len(done.outcome.tasks) <= MaxTasks
        /\ nsets < MaxSets
        /\ nsets' = nsets + 1
        /\ call' = [fn |-> "set_native_value", entity |-> i, value |-> value,
                    outcome |-> done.outcome]
        /\ datapoints' = done.dps
        /\ tasks' = tasks \o done.outcome.tasks
        /\ UNCHANGED <<product, waiting, last_write, entities>>
        /\ UNCHANGED <<resolveVars, virtualVars>>

\* Inputs: one device of each product list of the registry, the products
\* info it may come with, and what the device has reported so far.
EntityDevices ==
    { [category |-> "sfkzq", product_id |-> "nxquc5lb"],
      [category |-> "co2bj", product_id |-> "59s19z5m"],
      [category |-> "szjqr", product_id |-> "xhf790if"],
      [category |-> "szjqr", product_id |-> "blliqpsj"],
      [category |-> "szjqr", product_id |-> "ltak7e1p"],
      [category |-> "kg", product_id |-> "mknd4lci"],
      [category |-> "wk", product_id |-> "drlajpqc"],
      [category |-> "wsdcg", product_id |-> "ojzlzzsw"],
      [category |-> "znhsb", product_id |-> "cdlandip"],
      [category |-> "ggq", product_id |-> "hfgdqhho"],
      [category |-> "ggq", product_id |-> "unknown"] }

Items(dev) == get_mapping_by_device(mapping, dev).items

Range(seq) == { seq[i] : i \in 1..Len(seq) }

\* The datapoints behind the plain descriptors, and behind those with a getter.
PlainDpIds(dev) ==
    { m.dp_id : m \in { x \in Range(Items(dev)) :
                           HasAttr(x, "dp_id") /\ x.getter = "None" } }

ProgramDpIds(dev) ==
    { m.dp_id : m \in { x \in Range(Items(dev)) :
                           HasAttr(x, "dp_id") /\ x.getter # "None" } }

EntityProducts(dev) ==
    { [fingerbot |-> None] } \cup
    { [fingerbot |-> Some([mode |-> 8, program |-> id])] :
        id \in ProgramDpIds(dev) }

\* What the device reports together: a value for every plain datapoint and
\* a program payload.
Reports ==
    { << IntVal(-3), BytesVal(<< 0, 5, 5 >>) >>,
      << IntVal(15), BytesVal(<< 255, 255, 5, 0 >>) >> }

\* Nothing reported yet, or every datapoint of the device reported.
EntityStores(dev) ==
    { << >> } \cup
    { [id \in PlainDpIds(dev) \cup ProgramDpIds(dev) |->
          IF id \in PlainDpIds(dev) THEN DataPoint("DT_VALUE", report[1])
          ELSE DataPoint("DT_RAW", report[2])] :
        report \in Reports }

\* The values the host sets: the entity's minimum and, where the value goes
\* to the datapoint as it is, its maximum and the seventh point of its step
\* grid.
EntityValues(m) ==
    { m.description.native_min_value } \cup
    ( IF m.setter = "None"
      THEN { m.description.native_max_value,
             m.description.native_min_value + 7 * m.description.native_step }
      ELSE {} )

EntityInit ==
    /\ device \in EntityDevices
    /\ extra_entry = None
    /\ resolved = [called |-> FALSE]
    /\ product \in EntityProducts(device)
    /\ datapoints \in EntityStores(device)
    /\ tasks = << >>
    /\ last_write = None
    /\ waiting = << >>
    /\ call = [fn |-> "none"]
    /\ entities = None
    /\ nsets = 0

EntityNext ==
    \/ async_setup_entry
    \/ \E i \in 1..(IF entities.isNone THEN 0 ELSE Len(entities.value)) :
          NativeValue(i)
    \/ \E i \in 1..(IF entities.isNone THEN 0 ELSE Len(entities.value)) :
          \E value \in EntityValues(entities.value[i].mapping) :
              SetNativeValue(i, value)
    \/ RunTask

\* self._mapping.is_available(self, self._product)
CallIsAvailable(is_available, dps, prod) ==
    IF is_available = "is_fingerbot_in_program_mode"
    THEN is_fingerbot_in_program_mode(dps, prod)
    ELSE IF is_available = "is_fingerbot_not_in_program_mode"
    THEN is_fingerbot_not_in_program_mode(dps, prod)
    ELSE IF is_available = "is_fingerbot_in_push_mode"
    THEN is_fingerbot_in_push_mode(dps, prod)
    ELSE is_fingerbot_repeat_count_available(dps, prod)

\* The host's base availability is not consulted.
available_without_base(dps, prod, m, base) ==
    IF m.is_available # "None"
    THEN CallIsAvailable(m.is_available, dps, prod)
    ELSE Returned(TRUE)

\* TuyaBLENumber.available; base is what super().available returns.
available(dps, prod, m, base) ==
    IF base /\ m.is_available # "None"
    THEN CallIsAvailable(m.is_available, dps, prod)
    ELSE Returned(base)

\* The host reads `available` of every entity of the device.
Available(base) ==
    /\ ~entities.isNone
    /\ call' = [fn |-> "available", base |-> base,
                outcomes |-> [i \in 1..Len(entities.value) |->
                                available(datapoints, product,
                                          entities.value[i].mapping, base)]]
    /\ UNCHANGED <<product, waiting, datapoints, tasks, last_write, entities, nsets>>
    /\ UNCHANGED <<resolveVars, virtualVars>>

\* Inputs: a device of each list of the fingerbot family, the product info
\* it may come with, and the mode and program the device has reported.
AvailableDevices ==
    { [category |-> "szjqr", product_id |-> "xhf790if"],
      [category |-> "szjqr", product_id |-> "blliqpsj"],
      [category |-> "szjqr", product_id |-> "ltak7e1p"],
      [category |-> "kg", product_id |-> "mknd4lci"] }

ModeDpId(dev) == IF dev.category = "kg" THEN 101 ELSE 8

AvailableProducts(dev) ==
    { [fingerbot |-> None] } \cup
    { [fingerbot |-> Some([mode |-> ModeDpId(dev), program |-> id])] :
        id \in ProgramDpIds(dev) \cup {0} }

ReportedModes == { IntVal(0), IntVal(1), IntVal(2) }

AvailablePrograms ==
    ProgramValues \cup { ByteArrayVal(<< 255, 255, 5 >>) }

AvailableStore(dev, mode, program) ==
    [id \in (IF mode.isNone THEN {} ELSE {ModeDpId(dev)})
            \cup (IF program.isNone THEN {} ELSE ProgramDpIds(dev)) |->
        IF id = ModeDpId(dev) THEN DataPoint("DT_ENUM", mode.value)
        ELSE DataPoint("DT_RAW", program.value)]

AvailableStores(dev) ==
    { AvailableStore(dev, mode, program) :
        mode \in {None} \cup { Some(v) : v \in ReportedModes },
        program \in {None} \cup { Some(v) : v \in AvailablePrograms } }

AvailableInit ==
    /\ device \in AvailableDevices
    /\ extra_entry = None
    /\ resolved = [called |-> FALSE]
    /\ product \in AvailableProducts(device)
    /\ datapoints \in AvailableStores(device)
    /\ tasks = << >>
    /\ last_write = None
    /\ waiting = << >>
    /\ call = [fn |-> "none"]
    /\ entities = None
    /\ nsets = 0

AvailableNext ==
    \/ async_setup_entry
    \/ \E base \in BOOLEAN : Available(base)
    \/ IsFingerbotInProgramMode
    \/ IsFingerbotNotInProgramMode
    \/ IsFingerbotInPushMode
    \/ IsFingerbotRepeatCountAvailable

----------------------------------------------------------------------------
(* Claims about the registry lookup *)

\* The dict literal `items` binds key k at index i (no later item rebinds k).
BindsAt(items, k, i) ==
    /\ items[i][1] = k
    /\ \A j \in (i + 1)..Len(items) : items[j][1] # k

HasKey(items, k) == \E i \in 1..Len(items) : items[i][1] = k

\* C1: for a (category, product_id) pair present in the registry the lookup
\* returns exactly the list configured for that product (that list object,
\* never the category-level list or a merge); for an unknown category, or an
\* unknown product in a category without a category-level list, it returns an
\* empty sequence.
C1_ResolveExact ==
    resolved.called =>
        /\ \A i \in 1..Len(registry) :
              BindsAt(registry, device.category, i) =>
                LET e == registry[i][2]
                IN  /\ ~e.products.isNone =>
                          \A j \in 1..Len(e.products.value) :
                              BindsAt(e.products.value, device.product_id, j)
                                  => resolved.list = e.products.value[j][2]
                    /\ ( /\ e.mapping.isNone
                         /\ \/ e.products.isNone
                            \/ ~HasKey(e.products.value, device.product_id) )
                          => resolved.list.items = << >>
        /\ ~HasKey(registry, device.category) => resolved.list.items = << >>

\* A product bound twice in the source's table resolves to its last list.
C1_Witness ==
    /\ resolved.called
    /\ device = [category |-> "ggq", product_id |-> "hfgdqhho"]
    /\ resolved.list.id = "ggq/SGW02"
    /\ Len(resolved.list.items) = 2

\* C2: for every category entry with a category-level list defined, whatever
\* its products map (set, empty or not set), a product_id absent from the
\* products map resolves to the category-level list.
C2_FallbackForAbsentProduct ==
    resolved.called =>
        \A i \in 1..Len(registry) :
            BindsAt(registry, device.category, i) =>
                LET e == registry[i][2]
                IN  ( /\ ~e.mapping.isNone
                      /\ \/ e.products.isNone
                         \/ ~HasKey(e.products.value, device.product_id) )
                        => resolved.list = e.mapping.value

----------------------------------------------------------------------------
(* Claims about the virtual number *)

Activated == v_phase = "added" /\ v_call.op = "async_added_to_hass"

HostNumber == ~last_state.isNone /\ last_state.value.numeric

RecordNumber ==
    /\ ~storage_file.isNone
    /\ storage_file.value.json = "object"
    /\ ~storage_file.value.value.isNone
    /\ FloatOfJson(storage_file.value.value.value).raised = "None"

\* C3: after the first activation the value is the host's last state when
\* that is present and parses as a number; otherwise the number of the local
\* record when there is one; otherwise default_value.
C3_RestorePrecedence ==
    Activated =>
        v_native_value =
            IF HostNumber THEN last_state.value.number
            ELSE IF RecordNumber
                 THEN FloatOfJson(storage_file.value.value.value).value
                 ELSE VirtualMapping.default_value

\* C4: with no host state and no local record the value after activation is
\* default_value; and after a restart that follows set_value(v) and keeps no
\* host state, the value after activation is v.
C4_PersistsAcrossRestart ==
    (Activated /\ last_state.isNone) =>
        /\ (prior_set.isNone /\ storage_file.isNone)
              => v_native_value = VirtualMapping.default_value
        /\ ~prior_set.isNone => v_native_value = prior_set.value

\* C5: set_value(v) completes without an error, and afterwards the value in
\* memory and the state written to the host are both v.
C5_SetValueNeverRaises ==
    v_call.op = "async_set_native_value" =>
        /\ v_call.raised = "None"
        /\ v_native_value = v_call.value
        /\ ha_state = Some(NumStr(v_call.value))

----------------------------------------------------------------------------
(* Claims about the composite accessors *)

Accessors ==
    {"get_fingerbot_program_repeat_count", "set_fingerbot_program_repeat_count",
     "get_fingerbot_program_position", "set_fingerbot_program_position"}

\* The program datapoint the call found is a byte string of at least n bytes.
FoundBytes(n) ==
    /\ ~call.found.isNone
    /\ call.found.value.value.py = "bytes"
    /\ Len(call.found.value.value.bytes) >= n

\* C7: whatever the program datapoint holds (absent, not a byte string, a
\* byte string of any length), the four accessors complete without raising;
\* on a payload that is not a byte string of the documented layout (at least
\* 3 bytes) the getters return None and the setters schedule no write.
C7_AccessorsNeverRaise ==
    call.fn \in Accessors =>
        /\ call.outcome.raised = "None"
        /\ ~FoundBytes(3) =>
              /\ call.outcome.result = None
              /\ call.outcome.tasks = << >>

\* C8: on a payload of at least 2 bytes, set_fingerbot_program_repeat_count(r)
\* with r in 0..65535 schedules one write of a payload of the same length
\* whose bytes [0:2] are r big-endian and whose bytes from offset 2 on are
\* those of the input; and get_fingerbot_program_repeat_count called once
\* that write has run returns r.
C8_RepeatCountRoundTrip ==
    /\ ( /\ call.fn = "set_fingerbot_program_repeat_count"
         /\ FoundBytes(2)
         /\ call.value % 10 = 0
         /\ call.value \div 10 \in 0..65535 )
         => /\ call.outcome.raised = "None"
            /\ Len(call.outcome.tasks) = 1
            /\ tasks # << >> /\ tasks[Len(tasks)] = call.outcome.tasks[1]
            /\ LET old == call.found.value.value.bytes
                   new == call.outcome.tasks[1].value
               IN  /\ new.py = "bytes"
                   /\ call.outcome.tasks[1].dp_id = product.fingerbot.value.program
                   /\ Len(new.bytes) = Len(old)
                   /\ new.bytes[1] * 256 + new.bytes[2] = call.value \div 10
                   /\ new.bytes[1] \in 0..255 /\ new.bytes[2] \in 0..255
                   /\ \A k \in 3..Len(old) : new.bytes[k] = old[k]
    /\ ( /\ call.fn = "get_fingerbot_program_repeat_count"
         /\ ~call.after.isNone
         /\ call.after.value.origin.fn = "set_fingerbot_program_repeat_count"
         /\ call.after.value.origin.value % 10 = 0 )
         => call.outcome = [raised |-> "None",
                            result |-> Some(call.after.value.origin.value),
                            tasks |-> << >>]

\* A repeat count of 1000 read back from a payload that has bytes after
\* offset 2.
C8_Witness ==
    /\ call.fn = "get_fingerbot_program_repeat_count"
    /\ ~call.after.isNone
    /\ call.after.value.origin.fn = "set_fingerbot_program_repeat_count"
    /\ call.after.value.origin.value = F(1000)
    /\ call.outcome.result = Some(F(1000))
    /\ Len(call.found.value.value.bytes) = 4
    /\ call.found.value.value.bytes[4] = 255
    /\ call.found.value.value.bytes[3] = 5

\* C9: on a payload of at least 3 bytes, set_fingerbot_program_position(p)
\* with p in 0..100 schedules one write of a payload of the same length that
\* holds p at index 2 and the input's bytes everywhere else.
C9_PositionFrame ==
    ( /\ call.fn = "set_fingerbot_program_position"
      /\ FoundBytes(3)
      /\ call.value % 10 = 0
      /\ call.value \div 10 \in 0..100 )
      => /\ call.outcome.raised = "None"
         /\ Len(call.outcome.tasks) = 1
         /\ tasks # << >> /\ tasks[Len(tasks)] = call.outcome.tasks[1]
         /\ LET old == call.found.value.value.bytes
                new == call.outcome.tasks[1].value.bytes
            IN  /\ call.outcome.tasks[1].dp_id = product.fingerbot.value.program
                /\ Len(new) = Len(old)
                /\ new[3] = call.value \div 10
                /\ \A k \in 1..Len(old) : k # 3 => new[k] = old[k]

\* Position 37 set on a 4-byte payload whose byte 2 was not 37.
C9_Witness ==
    /\ call.fn = "set_fingerbot_program_position"
    /\ call.value = F(37)
    /\ FoundBytes(4)
    /\ call.found.value.value.bytes = << 5, 255, 0, 5 >>
    /\ call.outcome.tasks[1].value.bytes = << 5, 255, 37, 5 >>

----------------------------------------------------------------------------
(* Claims about the setup and the datapoint-bound entity *)

\* The entity class that matches a descriptor's variant.
VariantOf(m) ==
    IF m.cls = "TuyaBLEVirtualNumberMapping" THEN "TuyaBLEVirtualNumber"
    ELSE "TuyaBLENumber"

PassesAddFilter(m) ==
    m.force_add \/ DatapointsHasId(datapoints, m.dp_id, m.dp_type)

\* C6: setup creates exactly one adapter for every descriptor of the resolved
\* list that passes the add filter, of the variant of the descriptor (a
\* virtual adapter for a virtual descriptor), and reading the current value
\* of a created adapter does not fail.
C6_SetupOneAdapterPerDescriptor ==
    /\ call.fn = "async_setup_entry" =>
          LET want == SelectSeq(Items(device), PassesAddFilter)
          IN  /\ call.raised = "None"
              /\ Len(entities.value) = Len(want)
              /\ \A i \in 1..Len(want) :
                    /\ entities.value[i].mapping = want[i]
                    /\ entities.value[i].cls = VariantOf(want[i])
    /\ call.fn = "native_value" => call.outcome.raised = "None"

\* C10: the current value of a datapoint-bound adapter without a getter is the
\* descriptor's minimum when the datapoint is missing (not None, not an
\* error), and the stored integer divided by the coefficient when it is there.
C10_DirectValueFallback ==
    call.fn = "native_value" =>
        LET m == entities.value[call.entity].mapping
        IN  (m.cls = "TuyaBLENumberMapping" /\ m.getter = "None") =>
              IF m.dp_id \notin DOMAIN datapoints
              THEN call.outcome =
                     [raised |-> "None",
                      result |-> Some(m.description.native_min_value),
                      tasks |-> << >>]
              ELSE datapoints[m.dp_id].value.py = "int" =>
                     /\ call.outcome.raised = "None"
                     /\ ~call.outcome.result.isNone
                     /\ call.outcome.result.value * m.coefficient
                            = datapoints[m.dp_id].value.int * 10

\* down_position of a Fingerbot read before the device has reported it: 51.
C10_Witness ==
    /\ call.fn = "native_value"
    /\ device.product_id = "ltak7e1p"
    /\ entities.value[call.entity].mapping.description.key = "down_position"
    /\ 9 \notin DOMAIN datapoints
    /\ call.outcome.result = Some(F(51))

\* round(x) of Python for a float x in tenths: to the nearest integer, a tie
\* to the even one.
RoundOfFloat(x) ==
    LET q == x \div 10
        r == x % 10
    IN  IF r < 5 THEN q
        ELSE IF r > 5 THEN q + 1
        ELSE IF q % 2 = 0 THEN q ELSE q + 1

Abs(x) == IF x < 0 THEN -x ELSE x

\* A descriptor bound to one datapoint, without getter or setter.
Direct(m) ==
    m.cls = "TuyaBLENumberMapping" /\ m.getter = "None" /\ m.setter = "None"

\* v lies in the descriptor's range, on its step grid.
OnGrid(m, v) ==
    /\ v >= m.description.native_min_value
    /\ v <= m.description.native_max_value
    /\ (v - m.description.native_min_value) % m.description.native_step = 0

\* C11: for a direct descriptor with coefficient c and a value v of its range
\* on its step grid, set_native_value(v) schedules the write of round(v * c)
\* to the descriptor's datapoint, the datapoint holds round(v * c) once that
\* write has run, and native_value read then returns v within half a step.
C11_DirectRoundTrip ==
    /\ ( /\ call.fn = "set_native_value"
         /\ Direct(entities.value[call.entity].mapping)
         /\ OnGrid(entities.value[call.entity].mapping, call.value) )
         => LET m == entities.value[call.entity].mapping
            IN  /\ call.outcome.raised = "None"
                /\ Len(call.outcome.tasks) = 1
                /\ call.outcome.tasks[1].dp_id = m.dp_id
                /\ call.outcome.tasks[1].value =
                       IntVal(RoundOfFloat(call.value * m.coefficient))
                /\ tasks # << >> /\ tasks[Len(tasks)] = call.outcome.tasks[1]
    /\ \A i \in 1..(IF entities.isNone THEN 0 ELSE Len(entities.value)) :
          LET m == entities.value[i].mapping
          IN  ( /\ Direct(m)
                /\ ~last_write.isNone
                /\ last_write.value.dp_id = m.dp_id
                /\ last_write.value.origin.fn = "set_native_value"
                /\ OnGrid(m, last_write.value.origin.value) )
                => /\ datapoints[m.dp_id].value =
                         IntVal(RoundOfFloat(last_write.value.origin.value
                                             * m.coefficient))
                   /\ ( call.fn = "native_value" /\ call.entity = i )
                         => /\ call.outcome.raised = "None"
                            /\ ~call.outcome.result.isNone
                            /\ 2 * Abs(call.outcome.result.value
                                       - last_write.value.origin.value)
                                  <= m.description.native_step

\* hold_time of a Fingerbot (coefficient 10, step 0.1) set to 0.7: 7 is
\* stored and 0.7 read back.
C11_Witness ==
    /\ call.fn = "native_value"
    /\ device.product_id = "ltak7e1p"
    /\ entities.value[call.entity].mapping.description.key = "hold_time"
    /\ entities.value[call.entity].mapping.coefficient = 10
    /\ last_write = Some(CreateTask(10, IntVal(7),
                          [fn |-> "set_native_value", value |-> 7]))
    /\ datapoints[10].value = IntVal(7)
    /\ call.outcome.result = Some(7)

----------------------------------------------------------------------------
(* Claims about the availability predicates *)

ModePredicates ==
    {"is_fingerbot_in_program_mode", "is_fingerbot_not_in_program_mode",
     "is_fingerbot_in_push_mode"}

\* The device has reported the mode datapoint the product info names.
ModePresent ==
    /\ ~product.fingerbot.isNone
    /\ product.fingerbot.value.mode \in DOMAIN datapoints

ModeAbsent ==
    /\ ~product.fingerbot.isNone
    /\ product.fingerbot.value.mode \notin DOMAIN datapoints

Mode == datapoints[product.fingerbot.value.mode].value.int

\* The device has reported the program datapoint, and it is a byte string.
ProgramBytesPresent ==
    /\ HasProgram(product)
    /\ product.fingerbot.value.program \in DOMAIN datapoints
    /\ datapoints[product.fingerbot.value.program].value.py = "bytes"

Program == datapoints[product.fingerbot.value.program].value.bytes

\* The big-endian unsigned value of b[0:2].
Word(b) ==
    IF Len(b) >= 2 THEN b[1] * 256 + b[2]
    ELSE IF Len(b) = 1 THEN b[1] ELSE 0

\* C12: with the mode datapoint and a byte-string program datapoint both
\* present, is_fingerbot_repeat_count_available is true exactly when the mode
\* is 2 and the big-endian value of program bytes [0:2] is not 0xFFFF: false
\* for mode 2 with FF FF 05, true for mode 2 with 00 05 05, false for any
\* other mode.
C12_RepeatCountAvailable ==
    ( /\ call.fn = "is_fingerbot_repeat_count_available"
      /\ ModePresent
      /\ ProgramBytesPresent )
      => /\ call.outcome.raised = "None"
         /\ call.outcome.result = (Mode = 2 /\ Word(Program) # 65535)
         /\ (Mode = 2 /\ Program = << 255, 255, 5 >>)
               => call.outcome.result = FALSE
         /\ (Mode = 2 /\ Program = << 0, 5, 5 >>)
               => call.outcome.result = TRUE
         /\ Mode # 2 => call.outcome.result = FALSE

\* Mode 2 and the sentinel FF FF in a payload that goes on after it: false.
C12_Witness ==
    /\ call.fn = "is_fingerbot_repeat_count_available"
    /\ ModePresent /\ Mode = 2
    /\ ProgramBytesPresent /\ Program = << 255, 255, 5 >>
    /\ call.outcome.result = FALSE

\* C13: no predicate raises; with the mode datapoint missing the three mode
\* predicates return true; and is_fingerbot_repeat_count_available returns
\* true whenever the mode is missing or 2 and the program is missing or a
\* byte string whose repeat count is not 0xFFFF.
C13_MissingDatapointsSatisfy ==
    /\ call.fn \in ModePredicates \cup {"is_fingerbot_repeat_count_available"}
          => call.outcome.raised = "None"
    /\ (call.fn \in ModePredicates /\ ModeAbsent)
          => call.outcome.result = TRUE
    /\ ( /\ call.fn = "is_fingerbot_repeat_count_available"
         /\ HasProgram(product)
         /\ ModeAbsent \/ (ModePresent /\ Mode = 2)
         /\ \/ product.fingerbot.value.program \notin DOMAIN datapoints
            \/ (ProgramBytesPresent /\ Word(Program) # 65535)
         /\ \/ ModeAbsent
            \/ product.fingerbot.value.program \notin DOMAIN datapoints )
          => call.outcome.result = TRUE

\* The mode has not been reported, the program 00 05 05 has: the repeat
\* count is available.
C13_Witness ==
    /\ call.fn = "is_fingerbot_repeat_count_available"
    /\ ModeAbsent
    /\ ProgramBytesPresent /\ Program = << 0, 5, 5 >>
    /\ call.outcome.result = TRUE

----------------------------------------------------------------------------
(* Claims about the availability of the Fingerbot Plus controls *)

\* The device resolves to one of the Fingerbot Plus lists.
IsFingerbotPlus == Items(device) \in { FingerbotPlus.items, FingerbotPlusKg.items }

\* The control with description key k has been read as available.
AvailableKey(k) ==
    \E i \in 1..Len(entities.value) :
        /\ entities.value[i].mapping.description.key = k
        /\ call.outcomes[i].result

\* C15: for the Fingerbot Plus controls, with the host's base availability
\* true and the mode datapoint present, down_position and up_position are
\* available iff mode # 2, hold_time iff mode = 0 and program_idle_position
\* iff mode = 2, so down/up position and program_idle_position are never
\* available together; with base availability false no control is available.
C15_ModeGating ==
    (call.fn = "available" /\ IsFingerbotPlus) =>
        /\ \A i \in 1..Len(entities.value) :
              call.outcomes[i].raised = "None"
        /\ ~call.base =>
              \A i \in 1..Len(entities.value) : call.outcomes[i].result = FALSE
        /\ (call.base /\ ModePresent) =>
              /\ AvailableKey("down_position") = (Mode # 2)
              /\ AvailableKey("up_position") = (Mode # 2)
              /\ AvailableKey("hold_time") = (Mode = 0)
              /\ AvailableKey("program_idle_position") = (Mode = 2)
              /\ ~(AvailableKey("down_position")
                      /\ AvailableKey("program_idle_position"))
              /\ ~(AvailableKey("up_position")
                      /\ AvailableKey("program_idle_position"))

\* A Fingerbot Plus in program mode: program_idle_position is available,
\* down_position, up_position and hold_time are not.
C15_Witness ==
    /\ call.fn = "available"
    /\ call.base
    /\ device.product_id = "blliqpsj"
    /\ ModePresent /\ Mode = 2
    /\ AvailableKey("program_idle_position")
    /\ ~AvailableKey("down_position")
    /\ ~AvailableKey("up_position")
    /\ ~AvailableKey("hold_time")

----------------------------------------------------------------------------
(* Claims about concurrent writes of the program datapoint *)

\* The write tasks[i] runs in this step.
Runs(i) ==
    /\ i \in 1..Len(tasks)
    /\ tasks' = RemoveAt(tasks, i)
    /\ last_write' = Some(tasks[i])

\* The write that ran last and the write tasks[i] were both waiting before
\* either ran, one scheduled by set_fingerbot_program_repeat_count(r) and the
\* other by set_fingerbot_program_position(p).
BothPending(i, r, p) ==
    /\ ~last_write.isNone
    /\ i <= Len(waiting) /\ waiting[i] = tasks[i]
    /\ LET origins == { last_write.value.origin, tasks[i].origin }
       IN  origins =
             { [fn |-> "set_fingerbot_program_repeat_count", value |-> r],
               [fn |-> "set_fingerbot_program_position", value |-> p] }

\* The program payload holds r in bytes [0:2] and p in byte [2].
PayloadHolds(dps, r, p) ==
    LET b == dps[product.fingerbot.value.program].value.bytes
    IN  /\ Len(b) >= 3
        /\ b[1] * 256 + b[2] = r \div 10
        /\ b[3] = p \div 10

\* C14: when set_fingerbot_program_repeat_count(r) and
\* set_fingerbot_program_position(p) have both been called before either of
\* their writes has run, then once both writes have run, in either order,
\* the program payload holds r in bytes [0:2] and p in byte [2].
C14_NoLostUpdate ==
    [][ \A i \in 1..Len(tasks) :
          \A r \in { x \in RepeatCounts : x % 10 = 0 }, p \in Positions :
              (Runs(i) /\ BothPending(i, r, p))
                  => PayloadHolds(datapoints', r, p) ]_vars

----------------------------------------------------------------------------
(* Specifications *)

\* The registry lookup applied to every device identity.
InitResolve == ResolveInit /\ VirtualIdle /\ DeviceIdle

SpecResolve == InitResolve /\ [][ResolveNext]_vars

\* One virtual number through activations, sets and restarts of the host.
InitVirtual == VirtualInit /\ ResolveIdle /\ DeviceIdle

SpecVirtual == InitVirtual /\ [][VirtualNext]_vars

InitProgram == ProgramInit /\ ResolveIdle /\ VirtualIdle

\* The accessors of the program datapoint called on a device whose program
\* datapoint is absent, not a byte string, or a byte string of any length.
SpecProgram == InitProgram /\ [][ProgramNext]_vars

InitEntity == EntityInit /\ VirtualIdle

InitAvailable == AvailableInit /\ VirtualIdle

\* A device of the fingerbot family set up, its predicates called and the
\* availability of its entities read.
SpecAvailable == InitAvailable /\ [][AvailableNext]_vars

\* A device of the registry set up, and its entities read and set.
SpecEntity == InitEntity /\ [][EntityNext]_vars

====
